---- MODULE Spec2Model ----
(***************************************************************************)
(* Model of src/EntityCorrect.py: class EntityCorrect.                     *)
(*                                                                         *)
(* A string is a sequence of one-character strings.  Python indices are    *)
(* 0-based; TLA+ sequences are 1-based, so Python position p is element    *)
(* p + 1 here.  Operators that return Python indices (Find, get_index)     *)
(* return the 0-based value the code computes.                             *)
(***************************************************************************)
EXTENDS Integers, Sequences, FiniteSets, TLC

VARIABLES source, use_pinyin, splitter_symbol, line, synonym_dict, word_all,
          ac_synonym, pc, frame

vars == <<source, use_pinyin, splitter_symbol, line, synonym_dict, word_all,
          ac_synonym, pc, frame>>

engine == <<use_pinyin, splitter_symbol, synonym_dict, ac_synonym>>

-----------------------------------------------------------------------------
(* Bounds of the model *)

MaxTextLen == 4

MaxRecords == 1

MaxLoadRecords == 2

MaxConcTextLen == 2

-----------------------------------------------------------------------------
(* Alphabets *)

Chars == {"a", "b"}

Whitespace == {" "}

Threads == {1, 2}

\* the words dictionary records are drawn from
Vocabulary == {<<"a">>, <<"b">>, <<"a", "a">>, <<"a", "b">>}

\* a record is one line of the synonym file: the standard name, then its synonyms
Records == {<<c>> : c \in Vocabulary} \cup {<<c, v>> : c, v \in Vocabulary}

SeqsUpTo(S, n) == UNION {[1..k -> S] : k \in 0..n}

Sources(n) == SeqsUpTo(Records, n) \ {<< >>}

\* the synonym files of one line
OneLineSources == {<<r>> : r \in Records}

\* the values of splitter_symbol: the default "@@" and a caller's "-"
DefaultSplitter == <<"@", "@">>

Splitters == {DefaultSplitter, <<"-">>}

-----------------------------------------------------------------------------
(* Python str operations *)

Min(a, b) == IF a < b THEN a ELSE b

\* s[i:j] for 0 <= i, 0 <= j (the slice is clamped to the string)
Slice(s, i, j) == SubSeq(s, Min(i, Len(s)) + 1, Min(j, Len(s)))

\* sub occurs in s at Python position p
OccursAt(s, sub, p) ==
    /\ p >= 0
    /\ p + Len(sub) <= Len(s)
    /\ SubSeq(s, p + 1, p + Len(sub)) = sub

\* sub in s
In(sub, s) == \E p \in 0..Len(s) : OccursAt(s, sub, p)

\* s.find(sub): the lowest position, or -1
Find(s, sub) ==
    IF In(sub, s)
    THEN CHOOSE p \in 0..Len(s) :
            OccursAt(s, sub, p) /\ \A q \in 0..(p - 1) : ~OccursAt(s, sub, q)
    ELSE -1

\* s[:p], where p may be -1 (all but the last character)
Prefix(s, p) == IF p < 0 THEN SubSeq(s, 1, Len(s) + p) ELSE Slice(s, 0, p)

RECURSIVE SplitFrom(_, _, _, _)
SplitFrom(s, sep, p, cur) ==
    IF p >= Len(s) THEN <<cur>>
    ELSE IF OccursAt(s, sep, p)
         THEN <<cur>> \o SplitFrom(s, sep, p + Len(sep), << >>)
         ELSE SplitFrom(s, sep, p + 1, Append(cur, s[p + 1]))

\* s.split(sep), sep not empty
Split(s, sep) == SplitFrom(s, sep, 0, << >>)

RECURSIVE Join(_, _)
\* sep.join(parts)
Join(parts, sep) ==
    IF parts = << >> THEN << >>
    ELSE IF Len(parts) = 1 THEN parts[1]
    ELSE parts[1] \o sep \o Join(Tail(parts), sep)

RECURSIVE ReplaceFrom(_, _, _, _)
ReplaceFrom(s, old, new, p) ==
    IF p >= Len(s) THEN << >>
    ELSE IF OccursAt(s, old, p)
         THEN new \o ReplaceFrom(s, old, new, p + Len(old))
         ELSE <<s[p + 1]>> \o ReplaceFrom(s, old, new, p + 1)

RECURSIVE Interleave(_, _)
Interleave(s, new) ==
    IF s = << >> THEN new ELSE new \o <<s[1]>> \o Interleave(Tail(s), new)

\* s.replace(old, new): every non-overlapping occurrence, left to right; an
\* empty old inserts new before every character and at the end
Replace(s, old, new) ==
    IF old = << >> THEN Interleave(s, new) ELSE ReplaceFrom(s, old, new, 0)

\* text.strip() alone: only the whitespace at the two ends goes
StripEnds(text) ==
    LET keep == {i \in 1..Len(text) : text[i] \notin Whitespace}
    IN  IF keep = {} THEN << >>
        ELSE SubSeq(text, CHOOSE i \in keep : \A j \in keep : i <= j,
                          CHOOSE i \in keep : \A j \in keep : i >= j)

\* re.sub('\s+', '', text).strip()
StripAll(text) == SelectSeq(text, LAMBDA ch : ch \notin Whitespace)

\* x not in lst
NotInList(x, lst) == \A i \in 1..Len(lst) : lst[i] # x

-----------------------------------------------------------------------------
(* The transliteration: one token per character, joined by the splitter *)

PinyinOf(ch) == IF ch = "a" THEN <<"e">> ELSE <<"h", "e">>

get_pinyin(text, splitter) ==
    Join([i \in 1..Len(text) |-> PinyinOf(text[i])], splitter)

-----------------------------------------------------------------------------
(* _get_synonym: one line of the file *)

MatchKey(w, pinyin, splitter) == IF pinyin THEN get_pinyin(w, splitter) ELSE w

\* range(1, len(word_list)): the standard name itself is not registered
WordRangeSynonymsOnly(word_list) == 2..Len(word_list)

\* the indices of word_list the inner loop visits
WordRange(word_list) == 1..Len(word_list)

\* synonym_dict.setdefault(word, standard_word): the first record wins
DictPutFirst(d, word, standard_word) ==
    [k \in DOMAIN d \cup {word} |-> IF k \in DOMAIN d THEN d[k] ELSE standard_word]

\* synonym_dict[word] = standard_word
DictPut(d, word, standard_word) ==
    [k \in DOMAIN d \cup {word} |-> IF k = word THEN standard_word ELSE d[k]]

\* if word not in word_all: word_all.append(word)
ListAdd(lst, word) == IF NotInList(word, lst) THEN Append(lst, word) ELSE lst

RECURSIVE LoadWords(_, _, _, _, _)
\* the loop over word_list from index i; st = [dict, all]
LoadWords(st, word_list, i, pinyin, splitter) ==
    IF i \notin WordRange(word_list) THEN st
    ELSE LET word == MatchKey(word_list[i], pinyin, splitter)
         IN  LoadWords([dict |-> DictPut(st.dict, word, word_list[1]),
                        all  |-> ListAdd(st.all, word)],
                       word_list, i + 1, pinyin, splitter)

-----------------------------------------------------------------------------
(* State after the constructor's first three assignments *)

EmptyDict == [k \in {} |-> << >>]

IdleFrame ==
    [rpc |-> "idle", rerun |-> FALSE, text_in |-> << >>, text_raw |-> << >>,
     text_trans |-> << >>, match_synonym |-> << >>, word_index_list |-> << >>,
     del_index |-> << >>, update_text |-> << >>, standard_synonym |-> {},
     standard_namelist |-> << >>]

InitWith(srcs) ==
    /\ source \in srcs
    /\ use_pinyin \in BOOLEAN
    /\ splitter_symbol \in Splitters
    /\ (~use_pinyin => splitter_symbol = DefaultSplitter)
    /\ line = 0
    /\ synonym_dict = EmptyDict
    /\ word_all = << >>
    /\ ac_synonym = << >>
    /\ pc = "load"
    /\ frame = [t \in Threads |-> IdleFrame]

\* _get_synonym, one iteration of "for line in open(file_path)"
LoadLine ==
    /\ pc = "load"
    /\ line < Len(source)
    /\ LET st == LoadWords([dict |-> synonym_dict, all |-> word_all],
                           source[line + 1], 1, use_pinyin, splitter_symbol)
       IN  /\ synonym_dict' = st.dict
           /\ word_all' = st.all
    /\ line' = line + 1
    /\ UNCHANGED <<source, use_pinyin, splitter_symbol, ac_synonym, pc, frame>>

\* _build_actree on the returned list: the automaton holds (index, word)
BuildActree ==
    /\ pc = "load"
    /\ line = Len(source)
    /\ ac_synonym' = word_all
    /\ pc' = "ready"
    /\ UNCHANGED <<source, use_pinyin, splitter_symbol, line, synonym_dict,
                   word_all, frame>>

NextLoad == LoadLine \/ BuildActree

SpecLoad == InitWith(Sources(MaxLoadRecords)) /\ [][NextLoad]_vars

-----------------------------------------------------------------------------
(* The automaton's iter: every occurrence of every word, by end position;  *)
(* at one end position the longest word first, then its suffixes           *)

RECURSIVE MatchesAt(_, _, _, _)
\* the words of wordlist that end at Python position e - 1, of length <= n
MatchesAt(text, wordlist, e, n) ==
    IF n = 0 THEN << >>
    ELSE LET w == SubSeq(text, e - n + 1, e)
         IN  (IF NotInList(w, wordlist) THEN << >> ELSE <<w>>)
             \o MatchesAt(text, wordlist, e, n - 1)

RECURSIVE ScanFrom(_, _, _)
ScanFrom(text, wordlist, e) ==
    IF e > Len(text) THEN << >>
    ELSE MatchesAt(text, wordlist, e, e) \o ScanFrom(text, wordlist, e + 1)

\* [word_match for end_index, (index, word_match) in ac_synonym.iter(text)]
Scan(text, wordlist) == ScanFrom(text, wordlist, 1)

-----------------------------------------------------------------------------
(* get_index *)

\* the separator line 87 splits the prefix on
PrefixSplitter(splitter) == DefaultSplitter

get_index(text, synonym, pinyin, splitter) ==
    IF pinyin
    THEN LET word_len == Len(Split(synonym, splitter))
             start_index ==
                 Len(Split(Prefix(text, Find(text, synonym)),
                           PrefixSplitter(splitter))) - 1
         IN  [start |-> start_index, end |-> start_index + word_len,
              synonym |-> synonym]
    ELSE LET word_len == Len(synonym)
             start_index == Find(text, synonym)
         IN  [start |-> start_index, end |-> start_index + word_len,
              synonym |-> synonym]

-----------------------------------------------------------------------------
(* run, lines 117-129: the marks and the removal *)

\* match_synonym[i] in match_synonym[j] for some j != i (i, j are 1-based here)
Marked(match, i) ==
    \E j \in 1..Len(match) : i # j /\ In(match[i], match[j])

\* del_index after the loops: the marked Python indices, ascending
DelIndex(match) ==
    SelectSeq([i \in 1..Len(match) |-> i - 1], LAMBDA p : Marked(match, p + 1))

\* lst.pop(index): [ok, list]; IndexError when index is out of range
Pop(lst, index) ==
    IF index >= Len(lst) THEN [ok |-> FALSE, list |-> lst]
    ELSE [ok |-> TRUE,
          list |-> SubSeq(lst, 1, index) \o SubSeq(lst, index + 2, Len(lst))]

RECURSIVE PopAll(_, _)
\* for index in del_index: word_index_list.pop(index)
PopAll(lst, del) ==
    IF del = << >> THEN [ok |-> TRUE, list |-> lst]
    ELSE LET r == Pop(lst, del[1])
         IN  IF r.ok THEN PopAll(r.list, Tail(del)) ELSE r

-----------------------------------------------------------------------------
(* run, lines 132-144: the substitution *)

\* one iteration of "for item in word_index_list"; st = [text, pairs, names]
AssembleItem(st, item, raw, dict) ==
    LET standard_name == dict[item.synonym]
        replace_word == Slice(raw, item.start, item.end)
    IN  [text  |-> Replace(st.text, replace_word, standard_name),
         pairs |-> Append(st.pairs, <<standard_name, item.synonym>>),
         names |-> ListAdd(st.names, standard_name)]

RECURSIVE Assemble(_, _, _, _)
Assemble(st, items, raw, dict) ==
    IF items = << >> THEN st
    ELSE Assemble(AssembleItem(st, items[1], raw, dict), Tail(items), raw, dict)

\* list(set(lst)): the order is not kept, the value is the set of elements
SetOf(lst) == {lst[i] : i \in 1..Len(lst)}

-----------------------------------------------------------------------------
(* run as the steps of one call; frame[t] holds the call's locals *)

Texts(n) == SeqsUpTo(Chars \cup Whitespace, n)

\* lines 104-114
Start(t, text, again) ==
    /\ pc = "ready"
    /\ LET raw == StripAll(text)
           trans == IF use_pinyin THEN get_pinyin(raw, splitter_symbol) ELSE raw
       IN  frame' = [frame EXCEPT ![t] =
                        [IdleFrame EXCEPT !.rpc = "resolve", !.rerun = again,
                                          !.text_in = text, !.text_raw = raw,
                                          !.text_trans = trans,
                                          !.match_synonym = Scan(trans, ac_synonym)]]
    /\ UNCHANGED <<source, use_pinyin, splitter_symbol, line, synonym_dict,
                   word_all, ac_synonym, pc>>

RunScan(t, texts) ==
    /\ frame[t].rpc = "idle"
    /\ \E text \in texts : Start(t, text, FALSE)

\* the caller passes the corrected text of the call that just returned
Rerun(t) ==
    /\ frame[t].rpc = "done"
    /\ ~frame[t].rerun
    /\ Start(t, frame[t].update_text, TRUE)

\* lines 117-127
RunResolve(t) ==
    /\ frame[t].rpc = "resolve"
    /\ LET f == frame[t]
       IN  frame' = [frame EXCEPT ![t] =
                        [f EXCEPT !.rpc = "pop",
                                  !.word_index_list =
                                      [i \in 1..Len(f.match_synonym) |->
                                          get_index(f.text_trans, f.match_synonym[i],
                                                    use_pinyin, splitter_symbol)],
                                  !.del_index = DelIndex(f.match_synonym)]]
    /\ UNCHANGED <<source, use_pinyin, splitter_symbol, line, synonym_dict,
                   word_all, ac_synonym, pc>>

\* lines 128-129; an IndexError ends the call
RunPop(t) ==
    /\ frame[t].rpc = "pop"
    /\ LET f == frame[t]
           r == PopAll(f.word_index_list, f.del_index)
       IN  frame' = [frame EXCEPT ![t] =
                        [f EXCEPT !.rpc = IF r.ok THEN "assemble" ELSE "error",
                                  !.word_index_list = r.list]]
    /\ UNCHANGED <<source, use_pinyin, splitter_symbol, line, synonym_dict,
                   word_all, ac_synonym, pc>>

\* the substitution, also recording the replaced text as a new synonym in
\* self.synonym_dict
RunAssembleLearning(t) ==
    /\ frame[t].rpc = "assemble"
    /\ LET f == frame[t]
           r == Assemble([text |-> f.text_raw, pairs |-> << >>, names |-> << >>],
                         f.word_index_list, f.text_raw, synonym_dict)
       IN  /\ frame' = [frame EXCEPT ![t] =
                           [f EXCEPT !.rpc = "done",
                                     !.update_text = r.text,
                                     !.standard_synonym = SetOf(r.pairs),
                                     !.standard_namelist = r.names]]
           /\ synonym_dict' = DictPut(synonym_dict, f.text_raw, r.text)
    /\ UNCHANGED <<source, use_pinyin, splitter_symbol, line, word_all,
                   ac_synonym, pc>>

\* lines 132-144
RunAssemble(t) ==
    /\ frame[t].rpc = "assemble"
    /\ LET f == frame[t]
           r == Assemble([text |-> f.text_raw, pairs |-> << >>, names |-> << >>],
                         f.word_index_list, f.text_raw, synonym_dict)
       IN  frame' = [frame EXCEPT ![t] =
                        [f EXCEPT !.rpc = "done",
                                  !.update_text = r.text,
                                  !.standard_synonym = SetOf(r.pairs),
                                  !.standard_namelist = r.names]]
    /\ UNCHANGED <<source, use_pinyin, splitter_symbol, line, synonym_dict,
                   word_all, ac_synonym, pc>>

\* the call is over (returned or raised); its locals are gone
Return(t) ==
    /\ frame[t].rpc \in {"done", "error"}
    /\ frame' = [frame EXCEPT ![t] = IdleFrame]
    /\ UNCHANGED <<source, use_pinyin, splitter_symbol, line, synonym_dict,
                   word_all, ac_synonym, pc>>

Next ==
    \/ LoadLine
    \/ BuildActree
    \/ RunScan(1, Texts(MaxTextLen))
    \/ Rerun(1)
    \/ RunResolve(1)
    \/ RunPop(1)
    \/ RunAssemble(1)
    \/ Return(1)

Spec == InitWith(Sources(MaxRecords)) /\ [][Next]_vars

NextConc ==
    \/ LoadLine
    \/ BuildActree
    \/ \E t \in Threads :
          \/ RunScan(t, SeqsUpTo(Chars, MaxConcTextLen))
          \/ RunResolve(t)
          \/ RunPop(t)
          \/ RunAssemble(t)
          \/ Return(t)

SpecConc == InitWith(OneLineSources) /\ [][NextConc]_vars

-----------------------------------------------------------------------------
(* Vocabulary of the properties *)

Finished(f) == f.rpc \in {"done", "error"}

\* the keys record r of the source produces
KeysOf(r) == {MatchKey(r[i], use_pinyin, splitter_symbol) : i \in 1..Len(r)}

\* the keys of the occurrences the scan reported
Reported(f) == SetOf(f.match_synonym)

\* the text without its whitespace characters
Squeezed(text) == SelectSeq(text, LAMBDA ch : ch \in Chars)

\* the text the automaton scans for input text
Scanned(text) ==
    IF use_pinyin THEN get_pinyin(Squeezed(text), splitter_symbol) ELSE Squeezed(text)

\* the number of tokens of the scanned text that lie before position p
TokensBefore(trans, p) == Len(Split(Prefix(trans, p), splitter_symbol)) - 1

\* the occurrence of key at position p starts and ends on token boundaries
Aligned(trans, key, p) ==
    /\ p = 0 \/ OccursAt(trans, splitter_symbol, p - Len(splitter_symbol))
    /\ \/ p + Len(key) = Len(trans)
       \/ OccursAt(trans, splitter_symbol, p + Len(key))

-----------------------------------------------------------------------------
(* C1: whenever keys K1 and K2 both occur in the scanned text and K1 is a  *)
(* proper substring of K2 (K2 itself inside no other occurring key), run   *)
(* returns, reports the pair of K2 and reports no pair for K1.             *)
C1_Containment ==
    LET f == frame[1]
    IN  Finished(f) =>
          \A K1, K2 \in Reported(f) :
             ( /\ K1 # K2
               /\ In(K1, K2)
               /\ \A K3 \in Reported(f) : In(K2, K3) => K3 = K2 )
             => /\ f.rpc = "done"
                /\ <<synonym_dict[K2], K2>> \in f.standard_synonym
                /\ \A pr \in f.standard_synonym : pr[2] # K1

(* C2: run never ends in an error, and the empty text yields the empty     *)
(* corrected text, no pairs and no canonical names.                        *)
C2_Total ==
    LET f == frame[1]
    IN  /\ f.rpc # "error"
        /\ (f.rpc = "done" /\ f.text_in = << >>)
              => /\ f.update_text = << >>
                 /\ f.standard_synonym = {}
                 /\ f.standard_namelist = << >>

\* no canonical name is registered as a variant of a different entry
NoForeignCanonical ==
    \A i, j \in 1..Len(source) :
       (i # j /\ source[i][1] # source[j][1])
          => \A k \in 2..Len(source[j]) : source[j][k] # source[i][1]

(* C3: with no canonical name registered as a variant of a different       *)
(* entry, run on the corrected text of a run returns that same text.       *)
C3_Idempotent ==
    LET f == frame[1]
    IN  (NoForeignCanonical /\ f.rerun /\ Finished(f))
           => (f.rpc = "done" /\ f.update_text = f.text_in)

\* some record of the source is a canonical name only
HasBareRecord == \E i \in 1..Len(source) : Len(source[i]) = 1

(* C4, as claimed: construction from a source with a record that has no    *)
(* variant fails, and no engine is built.                                  *)
C4_RejectsBareRecord == HasBareRecord => pc # "ready"

(* C4, amended: construction from a source with a record that has no       *)
(* variant completes, and that record's canonical name is a match key of   *)
(* the dictionary and of the automaton, mapped to the canonical name of    *)
(* the last record that produces it.                                       *)
C4_AcceptsBareRecord ==
    pc = "ready" =>
       \A i \in 1..Len(source) :
          Len(source[i]) = 1 =>
             LET key == MatchKey(source[i][1], use_pinyin, splitter_symbol)
                 last == CHOOSE j \in 1..Len(source) :
                            /\ key \in KeysOf(source[j])
                            /\ \A m \in (j + 1)..Len(source) :
                                  key \notin KeysOf(source[m])
             IN  /\ key \in DOMAIN synonym_dict
                 /\ ~NotInList(key, ac_synonym)
                 /\ synonym_dict[key] = source[last][1]

C4_Witness == pc = "ready" /\ HasBareRecord /\ Len(source) = 2

(* C5: when the scanned text holds exactly one occurrence of one match     *)
(* key, run returns the stripped text with the word units of that          *)
(* occurrence replaced by the key's canonical name, the one pair           *)
(* (canonical, key) and the one canonical name.                            *)
C5_SingleOccurrence ==
    LET f == frame[1]
    IN  (Finished(f) /\ Len(Scan(Scanned(f.text_in), ac_synonym)) = 1) =>
           LET raw == Squeezed(f.text_in)
               trans == Scanned(f.text_in)
               key == Scan(trans, ac_synonym)[1]
               p == Find(trans, key)
               first == IF use_pinyin THEN TokensBefore(trans, p) ELSE p
               count == IF use_pinyin THEN Len(Split(key, splitter_symbol))
                        ELSE Len(key)
           IN  /\ f.rpc = "done"
               /\ f.update_text = SubSeq(raw, 1, first) \o synonym_dict[key]
                                     \o SubSeq(raw, first + count + 1, Len(raw))
               /\ f.standard_synonym = {<<synonym_dict[key], key>>}
               /\ f.standard_namelist = <<synonym_dict[key]>>

(* C6: when no match key occurs in the scanned text, run returns the text  *)
(* with all whitespace removed, no pairs and no canonical names.           *)
C6_NoMatch ==
    LET f == frame[1]
    IN  ( /\ Finished(f)
          /\ \A k \in DOMAIN synonym_dict : ~In(k, Scanned(f.text_in)) )
        => /\ f.rpc = "done"
           /\ f.update_text = Squeezed(f.text_in)
           /\ f.standard_synonym = {}
           /\ f.standard_namelist = << >>

C6_Witness ==
    LET f == frame[1]
    IN  /\ f.rpc = "done"
        /\ \A k \in DOMAIN synonym_dict : ~In(k, Scanned(f.text_in))
        /\ Len(Squeezed(f.text_in)) >= 2
        /\ Len(f.text_in) > Len(Squeezed(f.text_in))
        /\ f.text_in[1] \in Chars
        /\ f.text_in[Len(f.text_in)] \in Chars

(* C7: once the records are loaded every match key maps to exactly the     *)
(* canonical name of the last record, in load order, that produced it;     *)
(* the keys are exactly the keys the records produce, and each is once in  *)
(* the key list the automaton is built from.                               *)
C7_LastWriteWins ==
    LET loaded == 1..line
        produced == UNION {KeysOf(source[i]) : i \in loaded}
    IN  /\ DOMAIN synonym_dict = produced
        /\ \A key \in produced :
              \E j \in loaded :
                 /\ key \in KeysOf(source[j])
                 /\ \A m \in loaded : (m > j) => key \notin KeysOf(source[m])
                 /\ synonym_dict[key] = source[j][1]
        /\ SetOf(word_all) = produced
        /\ Len(word_all) = Cardinality(produced)
        /\ (pc = "ready" => ac_synonym = word_all)

C7_Witness ==
    /\ pc = "ready"
    /\ Len(source) = 2
    /\ source[1][1] # source[2][1]
    /\ \E key \in KeysOf(source[1]) \cap KeysOf(source[2]) :
          synonym_dict[key] = source[2][1]

\* the outcome of run(text) on the engine, computed as one call alone
RunAlone(text) ==
    LET raw == StripAll(text)
        trans == IF use_pinyin THEN get_pinyin(raw, splitter_symbol) ELSE raw
        match == Scan(trans, ac_synonym)
        full == [i \in 1..Len(match) |->
                    get_index(trans, match[i], use_pinyin, splitter_symbol)]
        popped == PopAll(full, DelIndex(match))
        r == Assemble([text |-> raw, pairs |-> << >>, names |-> << >>],
                      popped.list, raw, synonym_dict)
    IN  IF popped.ok
        THEN [rpc |-> "done", update_text |-> r.text,
              standard_synonym |-> SetOf(r.pairs), standard_namelist |-> r.names]
        ELSE [rpc |-> "error", update_text |-> << >>,
              standard_synonym |-> {}, standard_namelist |-> << >>]

Outcome(f) ==
    [rpc |-> f.rpc, update_text |-> f.update_text,
     standard_synonym |-> f.standard_synonym,
     standard_namelist |-> f.standard_namelist]

(* C8: after construction no step of a run call changes the synonym        *)
(* dictionary, the automaton, the delimiter or the mode flag, and every    *)
(* call of two interleaved calls ends with the outcome it has alone.       *)
C8_ReadOnly ==
    /\ [](\A t \in Threads :
             Finished(frame[t]) => Outcome(frame[t]) = RunAlone(frame[t].text_in))
    /\ [][pc = "ready" => engine' = engine]_vars

C8_Witness ==
    /\ frame[1].rpc = "done"
    /\ frame[1].standard_synonym # {}
    /\ frame[2].rpc = "pop"
    /\ frame[2].del_index # << >>
    /\ frame[2].text_in # frame[1].text_in

(* C9: the list left after the removal is the occurrences that were not    *)
(* marked for discard, in scan order.                                      *)
C9_Retention ==
    LET f == frame[1]
        full == [i \in 1..Len(f.match_synonym) |->
                    get_index(f.text_trans, f.match_synonym[i],
                              use_pinyin, splitter_symbol)]
        keep == SelectSeq([i \in 1..Len(full) |-> i],
                          LAMBDA i : ~Marked(f.match_synonym, i))
    IN  f.rpc \in {"assemble", "error"} =>
           /\ f.rpc = "assemble"
           /\ f.word_index_list = [n \in 1..Len(keep) |-> full[keep[n]]]

(* C10: in phonetic mode, for a key the scan reported whose first          *)
(* occurrence lies on token boundaries, get_index returns start = the      *)
(* number of tokens before that occurrence and end - start = the number    *)
(* of tokens of the key, and the tokens start..end-1 of the scanned text   *)
(* are the key's tokens.                                                   *)
C10_TokenRange ==
    LET f == frame[1]
        tokens == Split(f.text_trans, splitter_symbol)
    IN  (use_pinyin /\ f.rpc = "pop") =>
           \A i \in 1..Len(f.match_synonym) :
              LET key == f.match_synonym[i]
                  p == Find(f.text_trans, key)
                  item == f.word_index_list[i]
              IN  Aligned(f.text_trans, key, p) =>
                     /\ item.start = TokensBefore(f.text_trans, p)
                     /\ item.end - item.start = Len(Split(key, splitter_symbol))
                     /\ SubSeq(tokens, item.start + 1, item.end)
                           = Split(key, splitter_symbol)

====
